---- MODULE Spec2Model ----
(***************************************************************************)
(* A model of picosdk/scope.py: the Picoscope session object, its          *)
(* configuration operations and the calls it issues to the ps3000a driver. *)
(*                                                                         *)
(* The driver behind the ps3000a functions is closed: every call to it is  *)
(* modelled as an entry appended to the log `calls`, with the status the   *)
(* driver returns chosen by the environment.                               *)
(***************************************************************************)
EXTENDS Integers, Sequences, FiniteSets, TLC

VARIABLES
    phase,              \* "new": no object yet; "live": __init__ returned;
                        \* "failed": __init__ raised; "closed": __del__ ran
    self,               \* the instance dictionary of the Picoscope object
    calls,              \* the driver calls issued so far, in order
    sampling_interval,  \* the caller's ctypes object passed to start_sampling
    result              \* outcome of the last operation: op, args, exc, ret

vars == <<phase, self, calls, sampling_interval, result>>

(***************************************************************************)
(* Bounds of the model.                                                    *)
(***************************************************************************)
MaxCalls == 2
MaxSize == 2

(***************************************************************************)
(* Python values.  A value carries its type, so that == between values of  *)
(* different types is False instead of an accident of the encoding.        *)
(***************************************************************************)
PyInt(n) == [t |-> "int", v |-> <<n>>]
PyTuple(s) == [t |-> "tuple", v |-> s]
CShort(n) == [t |-> "c_short", v |-> <<n>>]
PyNone == [t |-> "NoneType", v |-> <<>>]

\* a == b for the builtin types used here.  ctypes simple types define no
\* __eq__: a c_short compares by identity and is never equal to an int.
PyEq(a, b) ==
    /\ a.t = b.t
    /\ a.t # "c_short"
    /\ a.v = b.v

\* `if x:` for a callback argument: None is falsy, a function is truthy.
Truthy(x) == x # "None"

\* str.upper() on the time-unit tokens.
Upper(s) ==
    CASE s = "fs" -> "FS"
      [] s = "ps" -> "PS"
      [] s = "ns" -> "NS"
      [] s = "us" -> "US"
      [] s = "ms" -> "MS"
      [] s = "s" -> "S"
      [] s = "min" -> "MIN"
      [] OTHER -> s

HasAttr(obj, name) == name \in DOMAIN obj
SetAttr(obj, name, val) ==
    [k \in DOMAIN obj \cup {name} |-> IF k = name THEN val ELSE obj[k]]

Last(s) == s[Len(s)]

(***************************************************************************)
(* Tables of the picosdk package the session looks its tokens up in.       *)
(***************************************************************************)
PICO_STATUS ==
    [PICO_OK |-> 0, PICO_NOT_FOUND |-> 3, PICO_NOT_RESPONDING |-> 7,
     PICO_INVALID_HANDLE |-> 12, PICO_POWER_SUPPLY_NOT_CONNECTED |-> 282]

PS3000A_CHANNEL ==
    [PS3000A_CHANNEL_A |-> 0, PS3000A_CHANNEL_B |-> 1,
     PS3000A_CHANNEL_C |-> 2, PS3000A_CHANNEL_D |-> 3]

PS3000A_COUPLING == [PS3000A_AC |-> 0, PS3000A_DC |-> 1]

PS3000A_RANGE ==
    [PS3000A_10MV |-> 0, PS3000A_20MV |-> 1, PS3000A_50MV |-> 2,
     PS3000A_100MV |-> 3, PS3000A_200MV |-> 4, PS3000A_500MV |-> 5,
     PS3000A_1V |-> 6, PS3000A_2V |-> 7, PS3000A_5V |-> 8,
     PS3000A_10V |-> 9, PS3000A_20V |-> 10, PS3000A_50V |-> 11]

\* The keys are upper case, as the lookup in __init__ spells them.
PS3000A_RATIO_MODE ==
    [PS3000A_RATIO_MODE_NONE |-> 0, PS3000A_RATIO_MODE_AGGREGATE |-> 1,
     PS3000A_RATIO_MODE_DECIMATE |-> 2, PS3000A_RATIO_MODE_AVERAGE |-> 4]

PS3000A_TIME_UNITS ==
    [PS3000A_FS |-> 0, PS3000A_PS |-> 1, PS3000A_NS |-> 2,
     PS3000A_US |-> 3, PS3000A_MS |-> 4, PS3000A_S |-> 5]

\* assert_pico_ok(status) returns normally exactly when status is PICO_OK.
assert_pico_ok(status) == status = PICO_STATUS["PICO_OK"]

(***************************************************************************)
(* The environment: what the driver can answer and what a caller can pass. *)
(***************************************************************************)
\* ps3000aOpenUnit: the handle written through the pointer and the status.
OpenOutcomes ==
    {<<1, PICO_STATUS["PICO_OK"]>>,
     <<1, PICO_STATUS["PICO_POWER_SUPPLY_NOT_CONNECTED"]>>,
     <<0, PICO_STATUS["PICO_NOT_FOUND"]>>,
     <<-1, PICO_STATUS["PICO_NOT_RESPONDING"]>>}

DeviceStatuses == {PICO_STATUS["PICO_OK"], PICO_STATUS["PICO_INVALID_HANDLE"]}

\* set_channel(channel, enable, coupling, range, aoffset): two supported
\* combinations and one with each token unsupported in turn.
ChannelArgs ==
    {<<"A", TRUE, "DC", "2V", 0>>, <<"B", FALSE, "AC", "5V", 1>>,
     <<"E", TRUE, "DC", "2V", 0>>, <<"A", TRUE, "GND", "2V", 0>>,
     <<"A", TRUE, "DC", "3V", 0>>}
\* set_downsampling_parameters(mode, ratio)
DownsamplingArgs == {<<"aggregate", 2>>, <<"peak", 2>>}
\* start_sampling(mode, time_unit, post_trig_samples)
SamplingArgs ==
    {<<"streaming", "us", 0>>, <<"streaming", "us", 5>>, <<"streaming", "min", 0>>,
     <<"block", "us", 0>>, <<"block", "min", 5>>, <<"rapid block", "us", 0>>,
     <<"ets", "us", 0>>, <<"rapide block", "us", 0>>}
Sizes == 1 .. MaxSize
\* set_data_buffer(channel, size)
BufferArgs == {<<"A", n>> : n \in Sizes} \cup {<<"E", 1>>}
Callbacks == {"None", "cb"}
\* The interval a caller asks for, and the intervals the driver may settle on.
RequestedInterval == 1
Intervals == {1, 2}

\* np.zeros(shape=n, dtype=np.int16)
Zeros(n) == [i \in 1 .. n |-> 0]

\* Resize that only ever grows the buffer.
Resize_NoShrink(buf, size) ==
    [i \in 1 .. (IF size < Len(buf) THEN Len(buf) ELSE size) |->
        IF i <= Len(buf) THEN buf[i] ELSE 0]

\* ndarray.resize(size), in place: truncated, or padded with zeros.
Resize(buf, size) ==
    [i \in 1 .. size |-> IF i <= Len(buf) THEN buf[i] ELSE 0]

\* ndarray.shape of the one-dimensional overview buffer.
Shape(buf) == PyTuple(<<Len(buf)>>)

Outcome(op, args, exc, ret) == [op |-> op, args |-> args, exc |-> exc, ret |-> ret]

\* One driver call: the function, the handle passed, the other arguments,
\* the status returned, and what the driver wrote through a pointer argument.
DriverCall(fn, h, args, status, out) ==
    [fn |-> fn, h |-> h, args |-> args, status |-> status, out |-> out]

\* The attributes the operations read.
armed == self["_Picoscope__sampling_configured"]
handle == self.chandle.v[1]

\* The driver calls the operations of the live session have issued (the
\* open call is the first entry of the log).
Issued == Len(calls) - 1

Init ==
    /\ phase = "new"
    /\ self = <<>>
    /\ calls = <<>>
    /\ sampling_interval = RequestedInterval
    /\ result = Outcome("none", <<>>, "None", PyNone)

(***************************************************************************)
(* Picoscope.__init__                                                      *)
(***************************************************************************)
\* The names __init__ can resolve: its parameters, its local and the
\* module's imports.
InitNames ==
    {"self", "serial", "open_status",
     "ctypes", "np", "Queue", "PICO_STATUS", "adc2mV", "assert_pico_ok", "ps"}

\* The attributes assigned once the open checks have passed.
Defaults(obj) ==
    LET a == SetAttr(obj, "ds_mode", PS3000A_RATIO_MODE["PS3000A_RATIO_MODE_NONE"])
        b == SetAttr(a, "ds_ratio", 1)
        c == SetAttr(b, "overview_buffer", Zeros(0))
        d == SetAttr(c, "queue", <<>>)
        e == SetAttr(d, "sample_count", 0)
    IN SetAttr(e, "_Picoscope__sampling_configured", FALSE)

\* h, st: the handle and status ps3000aOpenUnit answers with;
\* st2: the status ps3000aChangePowerSource would answer with.
Picoscope_init(h, st, st2) ==
    LET s0 == SetAttr(self, "chandle", CShort(h))
        opened == Append(calls, DriverCall("OpenUnit", h, <<"None">>, st, <<h>>))
        power == DriverCall("ChangePowerSource", h, <<st>>, st2, <<>>)
        Raise(exc, log) ==
            /\ phase' = "failed"
            /\ self' = s0
            /\ calls' = log
            /\ result' = Outcome("__init__", <<"None">>, exc, PyNone)
        Return(log) ==
            /\ phase' = "live"
            /\ self' = Defaults(s0)
            /\ calls' = log
            /\ result' = Outcome("__init__", <<"None">>, "None", PyNone)
    IN /\ phase = "new"
       /\ UNCHANGED sampling_interval
       /\ IF PyEq(s0.chandle, PyInt(-1))
            THEN Raise("Exception: Failed to open scope", opened)
          ELSE IF PyEq(s0.chandle, PyInt(0))
            THEN Raise("Exception: Scope not found", opened)
          ELSE IF st = PICO_STATUS["PICO_POWER_SUPPLY_NOT_CONNECTED"]
            THEN IF "chandle" \notin InitNames
                   THEN Raise("NameError", opened)
                 ELSE IF st2 # 0
                   THEN Raise("AssertionError", Append(opened, power))
                 ELSE Return(Append(opened, power))
          ELSE Return(opened)

(***************************************************************************)
(* Picoscope.__del__: runs when the object is collected, also when         *)
(* __init__ raised.  An exception in it is printed by the interpreter and  *)
(* goes no further.                                                        *)
(***************************************************************************)
\* The handle released before the acquisition is stopped.
TeardownCalls_CloseFirst(h, st1, st2) ==
    IF ~assert_pico_ok(st2)
      THEN <<DriverCall("CloseUnit", h, <<>>, st2, <<>>)>>
      ELSE <<DriverCall("CloseUnit", h, <<>>, st2, <<>>),
             DriverCall("Stop", h, <<>>, st1, <<>>)>>

\* The driver calls __del__ makes: ps3000aStop, then ps3000aCloseUnit unless
\* assert_pico_ok raised on the status of the stop.
TeardownCalls(h, st1, st2) ==
    IF ~assert_pico_ok(st1)
      THEN <<DriverCall("Stop", h, <<>>, st1, <<>>)>>
      ELSE <<DriverCall("Stop", h, <<>>, st1, <<>>),
             DriverCall("CloseUnit", h, <<>>, st2, <<>>)>>

\* st1, st2: the statuses ps3000aStop and ps3000aCloseUnit answer with.
Picoscope_del(st1, st2) ==
    /\ phase \in {"live", "failed"}
    /\ phase' = "closed"
    /\ UNCHANGED <<self, sampling_interval>>
    /\ calls' = calls \o TeardownCalls(handle, st1, st2)
    /\ result' = Outcome("__del__", <<>>,
           IF assert_pico_ok(st1) /\ assert_pico_ok(st2)
             THEN "None" ELSE "PicoSDKCtypesError", PyNone)

(***************************************************************************)
(* The operations of a constructed session.  An operation that raises      *)
(* leaves what it had already assigned.                                    *)
(***************************************************************************)
\* streaming_ready_cb.setter
set_streaming_ready_cb(cb) ==
    /\ phase = "live"
    /\ self' = SetAttr(self, "_Picoscope__streaming_ready_cb",
                       IF Truthy(cb) THEN "StreamingReadyType" ELSE "None")
    /\ result' = Outcome("streaming_ready_cb", <<cb>>, "None", PyNone)
    /\ UNCHANGED <<phase, calls, sampling_interval>>

\* The three table lookups made while the arguments of ps3000aSetChannel are
\* evaluated: a key that is in its table, or KeyError.
ChannelKeysFound(channel, coupling, range) ==
    /\ ("PS3000A_CHANNEL_" \o channel) \in DOMAIN PS3000A_CHANNEL
    /\ ("PS3000A_" \o coupling) \in DOMAIN PS3000A_COUPLING
    /\ ("PS3000A_" \o range) \in DOMAIN PS3000A_RANGE

\* SetChannelArgs with the enable flag not forwarded.
SetChannelArgs_EnableDropped(channel, enable, coupling, range, aoffset) ==
    <<PS3000A_CHANNEL["PS3000A_CHANNEL_" \o channel], TRUE,
      PS3000A_COUPLING["PS3000A_" \o coupling],
      PS3000A_RANGE["PS3000A_" \o range], aoffset>>

\* The arguments of ps3000aSetChannel after the handle.
SetChannelArgs(channel, enable, coupling, range, aoffset) ==
    <<PS3000A_CHANNEL["PS3000A_CHANNEL_" \o channel], enable,
      PS3000A_COUPLING["PS3000A_" \o coupling],
      PS3000A_RANGE["PS3000A_" \o range], aoffset>>

\* st: the status ps3000aSetChannel answers with.
set_channel(channel, enable, coupling, range, aoffset, st) ==
    LET args == <<channel, enable, coupling, range, aoffset>>
    IN /\ phase = "live"
       /\ Issued < MaxCalls
       /\ UNCHANGED <<phase, self, sampling_interval>>
       /\ IF ~ChannelKeysFound(channel, coupling, range)
            THEN /\ calls' = calls
                 /\ result' = Outcome("set_channel", args, "KeyError", PyNone)
          ELSE /\ calls' = Append(calls,
                      DriverCall("SetChannel", handle,
                                 SetChannelArgs(channel, enable, coupling, range, aoffset),
                                 st, <<>>))
               /\ result' = Outcome("set_channel", args,
                      IF assert_pico_ok(st) THEN "None" ELSE "PicoSDKCtypesError", PyNone)

set_downsampling_parameters(mode, ratio) ==
    LET args == <<mode, ratio>>
        key == "PS3000A_RATIO_MODE_" \o mode
    IN /\ phase = "live"
       /\ UNCHANGED <<phase, calls, sampling_interval>>
       /\ IF mode \notin {"none", "aggregate", "average", "decimate"}
            THEN /\ self' = self
                 /\ result' = Outcome("set_downsampling_parameters", args,
                                      "AssertionError", PyNone)
          ELSE IF key \notin DOMAIN PS3000A_RATIO_MODE
            THEN /\ self' = self
                 /\ result' = Outcome("set_downsampling_parameters", args,
                                      "KeyError", PyNone)
          ELSE /\ self' = SetAttr(SetAttr(self, "ds_mode", PS3000A_RATIO_MODE[key]),
                                  "ds_ratio", ratio)
               /\ result' = Outcome("set_downsampling_parameters", args, "None", PyNone)

\* The arguments of ps3000aSetDataBuffer after the handle, read from the
\* object as it is when the call is made.  The pointer to the overview
\* buffer stands for the buffer it points to: its length.
SetDataBufferArgs(obj, channel, size, segment) ==
    <<PS3000A_CHANNEL["PS3000A_CHANNEL_" \o channel], Len(obj.overview_buffer),
      size, segment, obj.ds_mode>>

\* st: the status ps3000aSetDataBuffer answers with.
set_data_buffer(channel, size, segment, st) ==
    LET args == <<channel, size, segment>>
        key == "PS3000A_CHANNEL_" \o channel
        resized == SetAttr(self, "overview_buffer", Resize(self.overview_buffer, size))
    IN /\ phase = "live"
       /\ Issued < MaxCalls
       /\ UNCHANGED <<phase, sampling_interval>>
       /\ self' = resized
       /\ IF key \notin DOMAIN PS3000A_CHANNEL
            THEN /\ calls' = calls
                 /\ result' = Outcome("set_data_buffer", args, "KeyError", PyNone)
          ELSE /\ calls' = Append(calls,
                      DriverCall("SetDataBuffer", handle,
                                 SetDataBufferArgs(resized, channel, size, segment),
                                 st, <<>>))
               /\ result' = Outcome("set_data_buffer", args,
                      IF assert_pico_ok(st) THEN "None" ELSE "PicoSDKCtypesError", PyNone)

\* Only the block mode rejected.
ModeNotImplemented_BlockOnly(mode) == mode = "block"

\* `mode in ['block', 'ets', 'rapide block']`
ModeNotImplemented(mode) == mode \in {"block", "ets", "rapide block"}

\* The minute taken for a time unit.
TimeUnitValid_Minutes(time_unit) ==
    time_unit \in {"fs", "ps", "ns", "us", "ms", "s", "min"}

\* `time_unit in ['fs', 'ps', 'ns', 'us', 'ms', 's']`
TimeUnitValid(time_unit) == time_unit \in {"fs", "ps", "ns", "us", "ms", "s"}

\* `self.overview_buffer.shape == 0`: a tuple compared with an int.
BufferNotSet(obj) == PyEq(Shape(obj.overview_buffer), PyInt(0))

\* The post-trigger count passed on as given.
RunStreamingArgs_NoDefault(obj, interval, time_unit, pre_trig_samples, post_trig_samples, auto_stop) ==
    <<interval, PS3000A_TIME_UNITS["PS3000A_" \o Upper(time_unit)],
      pre_trig_samples, post_trig_samples, auto_stop, obj.ds_ratio, obj.ds_mode,
      Len(obj.overview_buffer)>>

\* The downsampling ratio and mode passed in each other's place.
RunStreamingArgs_ModeRatioSwapped(obj, interval, time_unit, pre_trig_samples, post_trig_samples, auto_stop) ==
    LET size == Len(obj.overview_buffer)
        post == IF post_trig_samples = 0 THEN size * 1000 ELSE post_trig_samples
    IN <<interval, PS3000A_TIME_UNITS["PS3000A_" \o Upper(time_unit)],
         pre_trig_samples, post, auto_stop, obj.ds_mode, obj.ds_ratio, size>>

\* The size given as the post-trigger count, and the count as the size.
RunStreamingArgs_SizeFromPost(obj, interval, time_unit, pre_trig_samples, post_trig_samples, auto_stop) ==
    LET size == Len(obj.overview_buffer)
        post == IF post_trig_samples = 0 THEN size * 1000 ELSE post_trig_samples
    IN <<interval, PS3000A_TIME_UNITS["PS3000A_" \o Upper(time_unit)],
         pre_trig_samples, size, auto_stop, obj.ds_ratio, obj.ds_mode, post>>

\* The arguments of ps3000aRunStreaming after the handle.
RunStreamingArgs(obj, interval, time_unit, pre_trig_samples, post_trig_samples, auto_stop) ==
    LET size == Len(obj.overview_buffer)
        post == IF post_trig_samples = 0 THEN size * 1000 ELSE post_trig_samples
    IN <<interval, PS3000A_TIME_UNITS["PS3000A_" \o Upper(time_unit)],
         pre_trig_samples, post, auto_stop, obj.ds_ratio, obj.ds_mode, size>>

\* The interval passed by value: the caller's object keeps what it held.
ByRef_ByValue(interval, written) == interval

\* ctypes.byref(sampling_interval): the driver writes into the caller's
\* object, which holds `written` after the call.
ByRef(interval, written) == written

\* The flag set before the status is looked at.
AfterRunStreaming_FlagFirst(obj, st) ==
    SetAttr(obj, "_Picoscope__sampling_configured", TRUE)

\* The object after ps3000aRunStreaming answered st: assert_pico_ok raises
\* before the flag is set.
AfterRunStreaming(obj, st) ==
    IF assert_pico_ok(st)
      THEN SetAttr(obj, "_Picoscope__sampling_configured", TRUE)
      ELSE obj

\* interval: the value of the caller's ctypes object on entry;
\* st, eff: the status ps3000aRunStreaming answers with and the interval it
\* writes through the pointer when it accepts the request.
start_sampling(mode, interval, time_unit, pre_trig_samples, post_trig_samples, auto_stop, st, eff) ==
    LET args == <<mode, interval, time_unit, pre_trig_samples, post_trig_samples,
                  auto_stop>>
        key == "PS3000A_" \o Upper(time_unit)
        written == IF st = PICO_STATUS["PICO_OK"] THEN eff ELSE interval
        Raise(exc) ==
            /\ UNCHANGED <<self, calls>>
            /\ sampling_interval' = interval
            /\ result' = Outcome("start_sampling", args, exc, PyNone)
    IN /\ phase = "live"
       /\ Issued < MaxCalls
       /\ UNCHANGED phase
       /\ IF ModeNotImplemented(mode)
            THEN Raise("NotImplementedError")
          ELSE IF BufferNotSet(self)
            THEN Raise("Exception: Please call set_data_buffer before start_sampling")
          ELSE IF ~TimeUnitValid(time_unit)
            THEN Raise("AssertionError")
          ELSE IF key \notin DOMAIN PS3000A_TIME_UNITS
            THEN Raise("KeyError")
          ELSE /\ calls' = Append(calls,
                      DriverCall("RunStreaming", handle,
                                 RunStreamingArgs(self, interval, time_unit,
                                                  pre_trig_samples, post_trig_samples,
                                                  auto_stop),
                                 st, <<written>>))
               /\ sampling_interval' = ByRef(interval, written)
               /\ self' = AfterRunStreaming(self, st)
               /\ result' = Outcome("start_sampling", args,
                      IF assert_pico_ok(st) THEN "None" ELSE "PicoSDKCtypesError", PyNone)

\* The check of the flag left out.
NotConfigured_Unchecked(obj) == FALSE

\* `not self.__sampling_configured`
NotConfigured(obj) == ~obj["_Picoscope__sampling_configured"]

\* st: the status ps3000aGetStreamingLatestValues answers with.
get_streaming_values(param, st) ==
    LET args == <<param>>
        Raise(exc) ==
            /\ calls' = calls
            /\ result' = Outcome("get_streaming_values", args, exc, PyNone)
    IN /\ phase = "live"
       /\ Issued < MaxCalls
       /\ UNCHANGED <<phase, self, sampling_interval>>
       /\ IF NotConfigured(self)
            THEN Raise("Exception: Please call start_sampling before get_streaming_values")
          ELSE IF ~HasAttr(self, "_Picoscope__streaming_ready_cb")
            THEN Raise("AttributeError")
          ELSE /\ calls' = Append(calls,
                      DriverCall("GetStreamingLatestValues", handle,
                                 <<self["_Picoscope__streaming_ready_cb"], param>>,
                                 st, <<>>))
               /\ result' = Outcome("get_streaming_values", args, "None", PyNone)

Construct == \E o \in OpenOutcomes, st2 \in DeviceStatuses : Picoscope_init(o[1], o[2], st2)
Finalize == \E st1, st2 \in DeviceStatuses : Picoscope_del(st1, st2)

SetCallback == \E cb \in Callbacks : set_streaming_ready_cb(cb)
SetChannel ==
    \E a \in ChannelArgs, st \in DeviceStatuses :
        set_channel(a[1], a[2], a[3], a[4], a[5], st)
SetDownsampling == \E a \in DownsamplingArgs : set_downsampling_parameters(a[1], a[2])
SetDataBuffer ==
    \E a \in BufferArgs, st \in DeviceStatuses :
        set_data_buffer(a[1], a[2], 0, st)
StartSampling ==
    \E a \in SamplingArgs, st \in DeviceStatuses :
      \E eff \in IF st = PICO_STATUS["PICO_OK"] THEN Intervals ELSE {RequestedInterval} :
        start_sampling(a[1], RequestedInterval, a[2], 0, a[3], TRUE, st, eff)
GetStreamingValues == \E st \in DeviceStatuses : get_streaming_values("None", st)

Next ==
    \/ Construct
    \/ SetCallback
    \/ SetChannel
    \/ SetDownsampling
    \/ SetDataBuffer
    \/ StartSampling
    \/ GetStreamingValues
    \/ Finalize

Spec == Init /\ [][Next]_vars

(***************************************************************************)
(* The properties.  A step of operation X is a step after which result.op  *)
(* is X: every operation records itself there.                             *)
(***************************************************************************)
PicoOk == PICO_STATUS["PICO_OK"]
NotConnected == PICO_STATUS["PICO_POWER_SUPPLY_NOT_CONNECTED"]
PollTooEarly == "Exception: Please call start_sampling before get_streaming_values"
StartTooEarly == "Exception: Please call set_data_buffer before start_sampling"

\* The open call answered PICO_OK with a handle above 0.
Opened == Len(calls) >= 1 /\ calls[1].status = PicoOk /\ calls[1].h > 0

\* C1: get_streaming_values on a session that is not armed raises the
\* "call start_sampling first" exception and issues no driver call; and every
\* GetStreamingLatestValues call in the log comes after a RunStreaming call
\* that returned PICO_OK.
C1_PollOnlyWhenArmed ==
    /\ [][(result'.op = "get_streaming_values" /\ ~armed) =>
            /\ result'.exc = PollTooEarly
            /\ Len(calls') = Len(calls)]_vars
    /\ [](\A i \in 1 .. Len(calls) :
            calls[i].fn = "GetStreamingLatestValues" =>
                \E j \in 1 .. i - 1 :
                    calls[j].fn = "RunStreaming" /\ calls[j].status = PicoOk)

\* A session that is not armed has just been polled.
C1_Witness ==
    /\ phase = "live"
    /\ result.op = "get_streaming_values"
    /\ result.exc = PollTooEarly
    /\ ~armed

\* C2: on a session whose open succeeded, start_sampling in streaming mode
\* while the overview buffer has length 0 raises the "call set_data_buffer
\* first" exception, issues no RunStreaming call and leaves the session not
\* armed.
C2_StartNeedsBuffer ==
    [][(/\ Opened
        /\ result'.op = "start_sampling"
        /\ result'.args[1] = "streaming"
        /\ Len(self.overview_buffer) = 0) =>
            /\ result'.exc = StartTooEarly
            /\ Len(calls') = Len(calls)
            /\ ~armed']_vars

\* C3: once a session whose open succeeded is closed, the CloseUnit call has
\* been issued, whatever status the Stop call returned.
C3_CloseAlwaysReleases ==
    (Opened /\ phase = "closed") => \E i \in 1 .. Len(calls) : calls[i].fn = "CloseUnit"

\* C4: when the open call returns a status other than PICO_OK and the
\* power-supply status, or a handle of -1 or 0, no session is constructed
\* and no later driver call is issued on that handle.
C4_FailedOpenNoSession ==
    (/\ Len(calls) >= 1
     /\ \/ calls[1].status \notin {PicoOk, NotConnected}
        \/ calls[1].h \in {-1, 0}) =>
        /\ phase # "live"
        /\ \A i \in 2 .. Len(calls) : calls[i].h # calls[1].h

\* C5: when the open call returns the power-supply status, __init__ issues
\* exactly one ChangePowerSource call, with the opened handle and that
\* status, right after the open call; if it returns PICO_OK the session is
\* constructed with its defaults, otherwise construction fails.
C5_PowerSourceChanged ==
    (result.op = "__init__" /\ calls[1].status = NotConnected) =>
        /\ Len(calls) = 2
        /\ calls[2].fn = "ChangePowerSource"
        /\ calls[2].h = calls[1].h
        /\ calls[2].args[1] = NotConnected
        /\ IF calls[2].status = PicoOk
             THEN /\ phase = "live"
                  /\ self.ds_mode = PS3000A_RATIO_MODE["PS3000A_RATIO_MODE_NONE"]
                  /\ self.ds_ratio = 1
                  /\ Len(self.overview_buffer) = 0
                  /\ ~armed
             ELSE /\ phase = "failed"
                  /\ result.exc = "AssertionError"

\* C6: the armed flag goes from false to true only in a start_sampling step
\* whose single RunStreaming call returned PICO_OK; a start_sampling step on
\* a session that is not armed whose RunStreaming call returned another
\* status leaves the flag false, raises the driver error and has issued
\* RunStreaming once.
C6_ArmedOnlyOnSuccess ==
    [][/\ (phase = "live" /\ phase' = "live" /\ ~armed /\ armed') =>
            /\ result'.op = "start_sampling"
            /\ Len(calls') = Len(calls) + 1
            /\ Last(calls').fn = "RunStreaming"
            /\ Last(calls').status = PicoOk
       /\ (/\ result'.op = "start_sampling"
           /\ ~armed
           /\ Len(calls') > Len(calls)
           /\ Last(calls').status # PicoOk) =>
            /\ ~armed'
            /\ result'.exc = "PicoSDKCtypesError"
            /\ Len(calls') = Len(calls) + 1
            /\ Last(calls').fn = "RunStreaming"]_vars

\* A start_sampling whose RunStreaming call failed has left the session
\* not armed.
C6_Witness ==
    /\ phase = "live"
    /\ result.op = "start_sampling"
    /\ result.exc = "PicoSDKCtypesError"
    /\ Last(calls).fn = "RunStreaming"
    /\ ~armed

\* C7, as claimed: a start_sampling that succeeds returns the interval the
\* driver reported.
C7_ReturnsInterval ==
    (result.op = "start_sampling" /\ result.exc = "None") =>
        result.ret = PyInt(Last(calls).out[1])

\* C7, amended: a start_sampling that succeeds returns None, and the
\* interval the driver reported is in the caller's sampling_interval object.
C7_IntervalInCallerObject ==
    (result.op = "start_sampling" /\ result.exc = "None") =>
        /\ result.ret = PyNone
        /\ Last(calls).fn = "RunStreaming"
        /\ sampling_interval = Last(calls).out[1]

\* A start_sampling has succeeded with an interval the driver adjusted.
C7_Witness ==
    /\ result.op = "start_sampling"
    /\ result.exc = "None"
    /\ Last(calls).fn = "RunStreaming"
    /\ Last(calls).out[1] # RequestedInterval

\* C8: a set_data_buffer(channel, N) step leaves the overview buffer with
\* length N and issues at most one driver call: a SetDataBuffer call made
\* when the buffer already has length N, carrying size N and the session's
\* downsampling mode; it is issued whenever the channel is one of A to D.
C8_ResizeThenRegister ==
    [][result'.op = "set_data_buffer" =>
        /\ Len(self'.overview_buffer) = result'.args[2]
        /\ Len(calls') <= Len(calls) + 1
        /\ result'.args[1] \in {"A", "B", "C", "D"} => Len(calls') = Len(calls) + 1
        /\ Len(calls') > Len(calls) =>
            /\ Last(calls').fn = "SetDataBuffer"
            /\ Last(calls').args[2] = result'.args[2]
            /\ Last(calls').args[3] = result'.args[2]
            /\ Last(calls').args[5] = self.ds_mode]_vars

\* A buffer registered with one size has just been registered again with a
\* smaller one.
C8_Witness ==
    /\ result.op = "set_data_buffer"
    /\ Len(calls) >= 3
    /\ Last(calls).fn = "SetDataBuffer"
    /\ calls[Len(calls) - 1].fn = "SetDataBuffer"
    /\ Last(calls).args[3] < calls[Len(calls) - 1].args[3]

\* The enumerant of a supported downsampling mode.
C9_ModeCode(mode) ==
    CASE mode = "none" -> PS3000A_RATIO_MODE["PS3000A_RATIO_MODE_NONE"]
      [] mode = "aggregate" -> PS3000A_RATIO_MODE["PS3000A_RATIO_MODE_AGGREGATE"]
      [] mode = "average" -> PS3000A_RATIO_MODE["PS3000A_RATIO_MODE_AVERAGE"]
      [] mode = "decimate" -> PS3000A_RATIO_MODE["PS3000A_RATIO_MODE_DECIMATE"]

\* C9: on a session whose open succeeded, set_downsampling_parameters with a
\* mode outside none, aggregate, average, decimate raises and leaves ds_mode
\* and ds_ratio as they were; with one of the four it returns with both
\* ds_mode and ds_ratio updated.
C9_DownsamplingAtomic ==
    [][(Opened /\ result'.op = "set_downsampling_parameters") =>
        IF result'.args[1] \in {"none", "aggregate", "average", "decimate"}
          THEN /\ result'.exc = "None"
               /\ self'.ds_mode = C9_ModeCode(result'.args[1])
               /\ self'.ds_ratio = result'.args[2]
          ELSE /\ result'.exc = "AssertionError"
               /\ self'.ds_mode = self.ds_mode
               /\ self'.ds_ratio = self.ds_ratio]_vars

\* C10: a set_channel step whose channel, coupling and range tokens are all
\* supported issues exactly one driver call, SetChannel, with the three
\* enumerants of the tokens and the enable flag and offset as given; with an
\* unsupported token it raises KeyError and issues no driver call.
C10_SetChannelOnce ==
    [][result'.op = "set_channel" =>
        LET a == result'.args
        IN IF /\ a[1] \in {"A", "B", "C", "D"}
              /\ a[3] \in {"AC", "DC"}
              /\ a[4] \in {"10MV", "20MV", "50MV", "100MV", "200MV", "500MV",
                           "1V", "2V", "5V", "10V", "20V", "50V"}
             THEN /\ Len(calls') = Len(calls) + 1
                  /\ Last(calls').fn = "SetChannel"
                  /\ Last(calls').h = handle
                  /\ Last(calls').args[1] = PS3000A_CHANNEL["PS3000A_CHANNEL_" \o a[1]]
                  /\ Last(calls').args[2] = a[2]
                  /\ Last(calls').args[3] = PS3000A_COUPLING["PS3000A_" \o a[3]]
                  /\ Last(calls').args[4] = PS3000A_RANGE["PS3000A_" \o a[4]]
                  /\ Last(calls').args[5] = a[5]
             ELSE /\ Len(calls') = Len(calls)
                  /\ result'.exc = "KeyError"]_vars

\* A set_channel with supported tokens and the channel disabled has reached
\* the driver.
C10_Witness ==
    /\ result.op = "set_channel"
    /\ result.args[2] = FALSE
    /\ Last(calls).fn = "SetChannel"

\* C11: a start_sampling step with mode block, ets or rapide block (the
\* code's token for rapid block capture) raises NotImplementedError, issues
\* no driver call and leaves the armed flag as it was, whatever the time
\* unit, the post-trigger count and the state of the session.
C11_BlockModesRejected ==
    [][(result'.op = "start_sampling"
        /\ result'.args[1] \in {"block", "ets", "rapide block"}) =>
            /\ result'.exc = "NotImplementedError"
            /\ Len(calls') = Len(calls)
            /\ armed' = armed]_vars

\* An armed session has rejected the block mode given with an unsupported
\* time unit.
C11_Witness ==
    /\ phase = "live"
    /\ result.op = "start_sampling"
    /\ result.args[1] = "block"
    /\ result.args[3] = "min"
    /\ result.exc = "NotImplementedError"
    /\ armed

\* C12: a start_sampling step that reaches the driver submits, with the
\* overview buffer of length S, bufferSize S and postTrigSamples 1000*S when
\* the caller gave 0, and the caller's value when it is not 0; S is the
\* size given to set_data_buffer when that was the operation before it.
C12_PostTrigDefault ==
    [][(result'.op = "start_sampling" /\ Len(calls') > Len(calls)) =>
        LET S == Len(self.overview_buffer)
            call == Last(calls')
        IN /\ call.fn = "RunStreaming"
           /\ call.args[8] = S
           /\ call.args[4] = IF result'.args[5] = 0 THEN 1000 * S
                                                   ELSE result'.args[5]
           /\ result.op = "set_data_buffer" => S = result.args[2]]_vars

\* A start_sampling with no post-trigger count has followed the registration
\* of a buffer.
C12_Witness ==
    /\ result.op = "start_sampling"
    /\ result.args[5] = 0
    /\ result.exc = "None"
    /\ Len(calls) >= 3
    /\ Last(calls).fn = "RunStreaming"
    /\ calls[Len(calls) - 1].fn = "SetDataBuffer"
    /\ Last(calls).args[8] > 0
    /\ Last(calls).args[4] = 1000 * Last(calls).args[8]

\* C13: every CloseUnit call in the log is the last driver call, comes right
\* after a Stop call on the same handle, and is the only CloseUnit call.
C13_StopThenClose ==
    \A i \in 1 .. Len(calls) :
        calls[i].fn = "CloseUnit" =>
            /\ i = Len(calls)
            /\ i > 1
            /\ calls[i - 1].fn = "Stop"
            /\ calls[i - 1].h = calls[i].h
            /\ \A j \in 1 .. Len(calls) : calls[j].fn = "CloseUnit" => j = i

\* A session that issued driver calls has been stopped and closed.
C13_Witness ==
    /\ phase = "closed"
    /\ Len(calls) >= 4
    /\ Last(calls).fn = "CloseUnit"

\* C14: on a session whose open succeeded, a get_streaming_values step on an
\* armed session whose ready callback was never assigned, or was set to None,
\* issues exactly one driver call, GetStreamingLatestValues, and returns
\* without an exception.
C14_NoCallbackNoFailure ==
    [][(/\ Opened
        /\ result'.op = "get_streaming_values"
        /\ armed
        /\ \/ ~HasAttr(self, "_Picoscope__streaming_ready_cb")
           \/ self["_Picoscope__streaming_ready_cb"] = "None") =>
            /\ result'.exc = "None"
            /\ Len(calls') = Len(calls) + 1
            /\ Last(calls').fn = "GetStreamingLatestValues"]_vars

\* C15: on a session whose open succeeded, a set_data_buffer step whose
\* SetDataBuffer call returned a status other than PICO_OK raises the driver
\* error and leaves the length of the overview buffer, ds_mode, ds_ratio and
\* the armed flag as they were.
C15_FailedRegistrationNoChange ==
    [][(/\ Opened
        /\ result'.op = "set_data_buffer"
        /\ Len(calls') > Len(calls)
        /\ Last(calls').status # PicoOk) =>
            /\ result'.exc = "PicoSDKCtypesError"
            /\ Len(self'.overview_buffer) = Len(self.overview_buffer)
            /\ self'.ds_mode = self.ds_mode
            /\ self'.ds_ratio = self.ds_ratio
            /\ armed' = armed]_vars

\* C16: on a session whose open succeeded, a get_streaming_values step whose
\* GetStreamingLatestValues call returned a status other than PICO_OK raises
\* the driver error to its caller.
C16_PollFailureSurfaced ==
    [][(/\ Opened
        /\ result'.op = "get_streaming_values"
        /\ Len(calls') > Len(calls)
        /\ Last(calls').status # PicoOk) =>
            result'.exc = "PicoSDKCtypesError"]_vars

\* The buffer size of the latest RunStreaming call that returned PICO_OK.
C17_SubmittedSize ==
    LET runs == {i \in 1 .. Len(calls) :
                    calls[i].fn = "RunStreaming" /\ calls[i].status = PicoOk}
        last == CHOOSE i \in runs : \A j \in runs : j <= i
    IN calls[last].args[8]

\* The indices of the SetDataBuffer calls that returned PICO_OK.
C17_Registrations ==
    {i \in 1 .. Len(calls) : calls[i].fn = "SetDataBuffer" /\ calls[i].status = PicoOk}

\* The statement of C17 as claimed: in every state of a session whose open
\* succeeded, armed implies that the buffer size submitted to RunStreaming is
\* the current length of the overview buffer and the size of the latest
\* registration.
C17_ArmedSizeCurrent ==
    (Opened /\ phase = "live" /\ armed) =>
        /\ C17_SubmittedSize = Len(self.overview_buffer)
        /\ C17_Registrations # {} =>
               LET last == CHOOSE i \in C17_Registrations :
                               \A j \in C17_Registrations : j <= i
               IN C17_SubmittedSize = calls[last].args[3]

\* C17: a start_sampling step that arms the session submits the length the
\* overview buffer has at that moment as the buffer size, and every step of
\* a live session other than set_data_buffer leaves that length as it is:
\* the size of an armed session goes stale only by a later set_data_buffer.
C17_SizeCurrentWhenArming ==
    [][/\ (result'.op = "start_sampling" /\ result'.exc = "None") =>
              /\ armed'
              /\ Last(calls').fn = "RunStreaming"
              /\ Last(calls').args[8] = Len(self'.overview_buffer)
              /\ Len(self'.overview_buffer) = Len(self.overview_buffer)
       /\ (phase = "live" /\ phase' = "live" /\ result'.op # "set_data_buffer") =>
              Len(self'.overview_buffer) = Len(self.overview_buffer)]_vars

\* A session with a registered buffer has been armed with the size of that
\* buffer.
C17_Witness ==
    /\ Opened
    /\ phase = "live"
    /\ armed
    /\ result.op = "start_sampling"
    /\ result.exc = "None"
    /\ C17_Registrations # {}
    /\ C17_SubmittedSize = Len(self.overview_buffer)
    /\ Len(self.overview_buffer) > 0

C19_OnlyStreamingReachesDriver ==
    [][(/\ Opened
        /\ result'.op = "start_sampling"
        /\ result'.args[1] # "streaming") =>
            /\ result'.exc # "None"
            /\ Len(calls') = Len(calls)
            /\ armed' = armed]_vars

\* C20: a start_sampling step with mode streaming, on a session whose
\* overview buffer has a length above 0, with a time unit outside fs, ps, ns,
\* us, ms, s raises AssertionError, issues no driver call and leaves the
\* armed flag and the length of the overview buffer as they were.
C20_BadTimeUnitRejected ==
    [][(/\ result'.op = "start_sampling"
        /\ result'.args[1] = "streaming"
        /\ Len(self.overview_buffer) > 0
        /\ result'.args[3] \notin {"fs", "ps", "ns", "us", "ms", "s"}) =>
            /\ result'.exc = "AssertionError"
            /\ Len(calls') = Len(calls)
            /\ armed' = armed
            /\ Len(self'.overview_buffer) = Len(self.overview_buffer)]_vars

\* The minute has been rejected as the time unit of a streaming acquisition
\* on a session with a registered buffer.
C20_Witness ==
    /\ Opened
    /\ phase = "live"
    /\ result.op = "start_sampling"
    /\ result.args[1] = "streaming"
    /\ result.args[3] = "min"
    /\ result.exc = "AssertionError"
    /\ Len(self.overview_buffer) > 0
    /\ Last(calls).fn = "SetDataBuffer"
    /\ Last(calls).status = PicoOk

====
